---------------------------- MODULE Spec2Model ----------------------------
(***************************************************************************)
(* A model of Sources/MetroAISchedulerApp/Resources/ortools_solver.py:     *)
(* main() reads a JSON payload, derives the overnight / conference sets,   *)
(* posts linear constraints over one boolean x[s, i] per (student, shift)  *)
(* pair, calls CP-SAT and writes a result document.                        *)
(*                                                                         *)
(* Instants are integers: seconds since a Sunday 00:00 UTC.  A timestamp   *)
(* string is a record [wall, off]: its wall-clock reading in seconds and   *)
(* its UTC offset ({} for a naive string, {0} for a trailing Z).  A time   *)
(* zone is a fixed offset from UTC.  An optional JSON value is a set with  *)
(* at most one element ({} is an absent key or null).                      *)
(***************************************************************************)
EXTENDS Integers, Sequences, FiniteSets, TLC

VARIABLES
    argc,          \* len(sys.argv)
    payload,       \* the input document once json.load has read it
    pc,            \* the position of main(): start, import, check, solve, emit, exit, crash
    solverStatus,  \* status = solver.Solve(model); NONE before the call
    x,             \* the pairs <<s, i>> with solver.Value(x[(s, i)]) = 1
    out,           \* the document written to output_path
    writes,        \* how often the output file has been written
    exitCode       \* the return value of main(): {} while it runs

vars == <<argc, payload, pc, solverStatus, x, out, writes, exitCode>>

----------------------------------------------------------------------------
(* Bounds of the explored inputs *)

MaxStudents == 2
MaxShifts == 4
MaxRequired == 4
MaxOvernightMin == 2
MaxTypeBound == 1

(* Program constants *)

SecondsPerDay == 86400
SecondsPerHour == 3600
ExpectedArgc == 3
UsageExit == 2
UncaughtExit == 1
DefaultConferenceDay == 4

----------------------------------------------------------------------------
(* Small helpers *)

Range(f) == {f[n] : n \in DOMAIN f}

Max(a, b) == IF a >= b THEN a ELSE b

Some(o) == CHOOSE v \in o : TRUE

\* dict.get(key, default) on an optional value
GetOr(o, d) == IF o = {} THEN d ELSE Some(o)

Hours(h) == h * SecondsPerHour

Z(h) == [wall |-> Hours(h), off |-> {0}]

Naive(h) == [wall |-> Hours(h), off |-> {}]

WithOffset(h, offHours) == [wall |-> Hours(h), off |-> {Hours(offHours)}]

----------------------------------------------------------------------------
(* Time *)

\* parse_dt: the instant a timestamp string denotes; naive strings are UTC
ParseDt(v) == v.wall - GetOr(v.off, 0)

\* ZoneInfo(name), falling back to UTC for an unknown name
ZoneOffset(name) ==
    CASE name = "UTC" -> 0
      [] name = "America/New_York" -> Hours(-5)
      [] name = "Asia/Tokyo" -> Hours(9)
      [] OTHER -> 0

\* astimezone(local_tz): the wall clock reading of an instant
AsTimezone(t, tz) == t + ZoneOffset(tz)

\* date(): the local day number of a wall clock reading
DateOf(wall) == wall \div SecondsPerDay

\* date.weekday(): Monday = 0; day number 0 is a Sunday
PyWeekday(day) == (day + 6) % 7

\* ((weekday() + 1) % 7) + 1: Sunday = 1 ... Saturday = 7
SwiftWeekday(day) == ((PyWeekday(day) + 1) % 7) + 1

\* datetime(day.year, day.month, day.day, hour, minute, tzinfo=local_tz)
LocalDateTime(day, hm) == day * SecondsPerDay + Hours(hm.hour) + hm.minute * 60

----------------------------------------------------------------------------
(* Conference blackout *)

\* conference_overlap(shift_start, shift_end, rules, local_tz)
ConferenceOverlap(shift_start, shift_end, rules, local_tz) ==
    LET local_shift_start == AsTimezone(shift_start, local_tz)
        local_shift_end == AsTimezone(shift_end, local_tz)
    IN  \E day \in DateOf(local_shift_start)..DateOf(local_shift_end) :
            /\ SwiftWeekday(day) = rules.conferenceDay
            /\ LET conf_start == LocalDateTime(day, rules.conferenceStartTime)
                   conf_end0 == LocalDateTime(day, rules.conferenceEndTime)
                   conf_end == IF conf_end0 <= conf_start
                               THEN conf_end0 + SecondsPerDay
                               ELSE conf_end0
               IN  local_shift_start < conf_end /\ conf_start < local_shift_end

----------------------------------------------------------------------------
(* The payload and what main() derives from it *)

Students(p) == DOMAIN p.students

Shifts(p) == DOMAIN p.shifts

Pairs(p) == Students(p) \X Shifts(p)

Rules(p) == p.rules

LocalTz(p) == p.rules.timezone

StartOf(p, i) == ParseDt(p.shifts[i].startDateTime)

EndOf(p, i) == ParseDt(p.shifts[i].endDateTime)

\* name.strip().lower() on the names the inputs use
NameKey(name) ==
    CASE name = "Overnight" -> "overnight"
      [] name = " overnight " -> "overnight"
      [] name = "OVERNIGHT" -> "overnight"
      [] name = "Overnight Float" -> "overnight float"
      [] name = "Trauma" -> "trauma"
      [] name = "CCF" -> "ccf"
      [] OTHER -> name

\* templates = {t["id"]: t ...}; templates.get(sh["templateId"], {}).get("shiftTypeId")
TemplateTypeId(p, templateId) ==
    LET known == {n \in DOMAIN p.shiftTemplates : p.shiftTemplates[n].id = templateId}
    IN  IF known = {} THEN {}
        ELSE p.shiftTemplates[CHOOSE n \in known : \A m \in known : m <= n].shiftTypeId

\* shift_types.get(type_id)
ShiftTypeOf(p, type_id) ==
    LET known == {n \in DOMAIN p.shiftTypes : p.shiftTypes[n].id = type_id}
    IN  IF known = {} THEN {}
        ELSE {p.shiftTypes[CHOOSE n \in known : \A m \in known : m <= n]}

\* the templateId of shift i names no template, or the template names no
\* shift type, or its shiftTypeId is the id of no shift type
Untyped(p, i) ==
    \A type_id \in TemplateTypeId(p, p.shifts[i].templateId) : ShiftTypeOf(p, type_id) = {}

IsOvernightType(t) == NameKey(t.name) = "overnight"

OvernightTypeIds(p) ==
    {p.shiftTypes[n].id : n \in {m \in DOMAIN p.shiftTypes : IsOvernightType(p.shiftTypes[m])}}

\* the first overnight shift type in dict order decides; int(minShifts or 0)
OvernightRequired(p) ==
    LET idx == {n \in DOMAIN p.shiftTypes : IsOvernightType(p.shiftTypes[n])}
    IN  IF idx = {} THEN 0
        ELSE Max(0, GetOr(p.shiftTypes[CHOOSE n \in idx : \A m \in idx : n <= m].minShifts, 0))

\* Variant: a shift is overnight when its isOvernight hint is set
IsOvernightShiftByHint(p, i) == p.shifts[i].isOvernight

IsOvernightShift(p, i) ==
    LET template_type_id == TemplateTypeId(p, p.shifts[i].templateId)
    IN  template_type_id # {} /\ Some(template_type_id) \in OvernightTypeIds(p)

OvernightShiftIndices(p) == {i \in Shifts(p) : IsOvernightShift(p, i)}

\* Variant: the day before Sunday is not wrapped to Saturday
DayBeforeNoWrap(rules) == rules.conferenceDay - 1

DayBeforeConference(rules) ==
    IF rules.conferenceDay = 1 THEN 7 ELSE rules.conferenceDay - 1

ShiftWeekday(p, i) == SwiftWeekday(DateOf(AsTimezone(StartOf(p, i), LocalTz(p))))

OvernightBeforeConferenceIndices(p) ==
    {i \in OvernightShiftIndices(p) : ShiftWeekday(p, i) = DayBeforeConference(Rules(p))}

ConferenceBlockedShiftIndices(p) ==
    {i \in Shifts(p) : ConferenceOverlap(StartOf(p, i), EndOf(p, i), Rules(p), LocalTz(p))}

UserTarget(p) == p.rules.numShiftsRequired

\* Variant: the overnight block is not collapsed to one unit
TargetUncollapsed(p) == Max(0, UserTarget(p))

Target(p) == Max(0, UserTarget(p) - Max(0, OvernightRequired(p) - 1))

----------------------------------------------------------------------------
(* Candidate overnight blocks *)

\* sorted(overnight_shift_indices, key=start): stable, ties keep input order
Before(p, i, j) == StartOf(p, i) < StartOf(p, j) \/ (StartOf(p, i) = StartOf(p, j) /\ i < j)

OvernightOrdered(p) ==
    LET S == OvernightShiftIndices(p)
    IN  [r \in 1..Cardinality(S) |->
            CHOOSE i \in S : Cardinality({j \in S : Before(p, j, i)}) = r - 1]

\* overnight_ordered[start:start + overnight_required], start counted from 1
Window(p, start) ==
    SubSeq(OvernightOrdered(p), start, start + OvernightRequired(p) - 1)

Consecutive(p, window) ==
    \A n \in 2..Len(window) :
        StartOf(p, window[n]) - StartOf(p, window[n - 1]) = SecondsPerDay

ValidWindows(p) ==
    {start \in 1..(Len(OvernightOrdered(p)) - OvernightRequired(p) + 1) :
        Consecutive(p, Window(p, start))}

\* Variant: the span ends with the first shift of the window
WindowSpanOfFirstShift(p, start) ==
    LET window == Window(p, start)
    IN  [block_start |-> StartOf(p, window[1]), block_end |-> EndOf(p, window[1])]

WindowSpan(p, start) ==
    LET window == Window(p, start)
    IN  [block_start |-> StartOf(p, window[1]), block_end |-> EndOf(p, window[Len(window)])]

----------------------------------------------------------------------------
(* The constraints main() posts.  Every constraint but the double-booking  *)
(* one is posted per student: h is the set of shifts i with x[s, i] = 1    *)
(* for one student s, a the set of all pairs <<s, i>> with x[s, i] = 1.    *)

Held(a, s) == {pr[2] : pr \in {q \in a : q[1] = s}}

\* Variant: the target is an upper bound of the per-student total
TotalAtMost(p, h) == Cardinality(h) <= Target(p)

\* model.Add(sum(terms) == target)
TotalConstraint(p, h) == Cardinality(h) = Target(p)

\* Variant: the overnight requirement is posted as a minimum
OvernightCountAtLeast(p, h) ==
    OvernightRequired(p) > 0 =>
        Cardinality(h \cap OvernightShiftIndices(p)) >= OvernightRequired(p)

\* if overnight_required > 0: the overnight count equals overnight_required
OvernightCountConstraint(p, h) ==
    OvernightRequired(p) > 0 =>
        Cardinality(h \cap OvernightShiftIndices(p)) = OvernightRequired(p)

Overlap(start_i, end_i, start_j, end_j) == start_i < end_j /\ start_j < end_i

\* the shifts outside a window that its block variable excludes
SpanBlocked(p, start) ==
    LET span == WindowSpan(p, start)
    IN  {j \in Shifts(p) \ Range(Window(p, start)) :
            Overlap(StartOf(p, j), EndOf(p, j), span.block_start, span.block_end)}

\* exactly one start_var is 1; x of an overnight shift is the sum of the
\* start_vars of the windows covering it; the chosen window reserves its span
BlockConstraint(p, h) ==
    OvernightRequired(p) > 1 =>
        \E start \in ValidWindows(p) :
            /\ \A i \in OvernightShiftIndices(p) :
                   (i \in h) <=> (i \in Range(Window(p, start)))
            /\ h \cap SpanBlocked(p, start) = {}

\* Variant: an absent noDoubleBooking key reads as False
NoDoubleBookingDefaultOff(rules) == GetOr(rules.noDoubleBooking, FALSE)

\* rules.get("noDoubleBooking", True)
NoDoubleBooking(rules) == GetOr(rules.noDoubleBooking, TRUE)

\* Variant: a shift instance may be shared by two students
NoDoubleBookingUpToTwo(p, a) ==
    NoDoubleBooking(Rules(p)) =>
        \A i \in Shifts(p) : Cardinality({s \in Students(p) : <<s, i>> \in a}) <= 2

\* if rules.get("noDoubleBooking", True): at most one student per shift
NoDoubleBookingConstraint(p, a) ==
    NoDoubleBooking(Rules(p)) =>
        \A i \in Shifts(p) : Cardinality({s \in Students(p) : <<s, i>> \in a}) <= 1

ConferenceConstraint(p, h) == h \cap ConferenceBlockedShiftIndices(p) = {}

\* Variant: the ban is posted only when there is an overnight quota
PreConferenceOnlyWithQuota(p, h) ==
    OvernightRequired(p) > 0 => h \cap OvernightBeforeConferenceIndices(p) = {}

PreConferenceConstraint(p, h) == h \cap OvernightBeforeConferenceIndices(p) = {}

\* Variant: the hours are converted as if they were minutes
MinRestFromMinutes(rules) == rules.timeOffHours * 60

MinRestSeconds(rules) == rules.timeOffHours * SecondsPerHour

\* Variant: the comparison of the gap with the rest time is reversed
ConflictWhenRestIsLong(p, i, j) ==
    LET start_i == StartOf(p, i)
        end_i == EndOf(p, i)
        start_j == StartOf(p, j)
        end_j == EndOf(p, j)
    IN  IF Overlap(start_i, end_i, start_j, end_j) THEN TRUE
        ELSE IF end_i <= start_j
             THEN ~(start_j - end_i <= MinRestSeconds(Rules(p)))
             ELSE ~(start_i - end_j <= MinRestSeconds(Rules(p)))

\* the pairs i < j of which a student may hold at most one
Conflict(p, i, j) ==
    LET start_i == StartOf(p, i)
        end_i == EndOf(p, i)
        start_j == StartOf(p, j)
        end_j == EndOf(p, j)
    IN  IF Overlap(start_i, end_i, start_j, end_j) THEN TRUE
        ELSE IF end_i <= start_j
             THEN ~(start_j - end_i >= MinRestSeconds(Rules(p)))
             ELSE ~(start_i - end_j >= MinRestSeconds(Rules(p)))

\* Variant: shifts without a resolvable shift type are left out of the
\* rest and overlap rule
RestConstraintOfTypedShifts(p, h) ==
    \A i \in h : \A j \in h :
        (i < j /\ ~Untyped(p, i) /\ ~Untyped(p, j)) => ~Conflict(p, i, j)

RestConstraint(p, h) ==
    \A i \in h : \A j \in h : i < j => ~Conflict(p, i, j)

\* shifts_by_template, then shifts_by_type: shifts whose template is known
\* and names a shift type
TypeIdOfShift(p, i) == TemplateTypeId(p, p.shifts[i].templateId)

ShiftsByType(p) ==
    LET ids == UNION {TypeIdOfShift(p, i) : i \in Shifts(p)}
    IN  [type_id \in ids |-> {i \in Shifts(p) : TypeIdOfShift(p, i) = {type_id}}]

\* Variant: the maximum of a shift type is posted as a lower bound
TypeBoundsMaxAsMin(p, h) ==
    \A type_id \in DOMAIN ShiftsByType(p) :
        \A shift_type \in ShiftTypeOf(p, type_id) :
            LET expr == Cardinality(h \cap ShiftsByType(p)[type_id])
            IN  /\ \A min_shifts \in shift_type.minShifts : expr >= min_shifts
                /\ \A max_shifts \in shift_type.maxShifts : expr >= max_shifts

TypeBoundsConstraint(p, h) ==
    \A type_id \in DOMAIN ShiftsByType(p) :
        \A shift_type \in ShiftTypeOf(p, type_id) :
            LET expr == Cardinality(h \cap ShiftsByType(p)[type_id])
            IN  /\ \A min_shifts \in shift_type.minShifts : expr >= min_shifts
                /\ \A max_shifts \in shift_type.maxShifts : expr <= max_shifts

\* Variant: the members of the chosen overnight block are left out of the
\* rest and overlap rule
StudentConstraintsRestOutsideBlock(p, h) ==
    /\ TotalConstraint(p, h)
    /\ OvernightCountConstraint(p, h)
    /\ BlockConstraint(p, h)
    /\ ConferenceConstraint(p, h)
    /\ PreConferenceConstraint(p, h)
    /\ \A i \in h : \A j \in h :
           (i < j /\ ~(OvernightRequired(p) > 1 /\ {i, j} \subseteq OvernightShiftIndices(p)))
               => ~Conflict(p, i, j)
    /\ TypeBoundsConstraint(p, h)

\* the constraints on the row x[s, .] of one student
StudentConstraints(p, h) ==
    /\ TotalConstraint(p, h)
    /\ OvernightCountConstraint(p, h)
    /\ BlockConstraint(p, h)
    /\ ConferenceConstraint(p, h)
    /\ PreConferenceConstraint(p, h)
    /\ RestConstraint(p, h)
    /\ TypeBoundsConstraint(p, h)

Satisfies(p, a) ==
    /\ \A s \in Students(p) : StudentConstraints(p, Held(a, s))
    /\ NoDoubleBookingConstraint(p, a)

\* the satisfying assignments, found row by row
Solutions(p) ==
    LET rows == {h \in SUBSET Shifts(p) : StudentConstraints(p, h)}
        PairsOf(f) == UNION {{s} \X f[s] : s \in Students(p)}
    IN  {a \in {PairsOf(f) : f \in [Students(p) -> rows]} : NoDoubleBookingConstraint(p, a)}

\* solver.Solve(model): a solution with OPTIMAL or FEASIBLE, INFEASIBLE when
\* there is none, or UNKNOWN when the wall-clock limit ends the search first
SolverOutcomes(p) ==
    LET solutions == Solutions(p)
    IN  {[status |-> st, values |-> a] : st \in {"OPTIMAL", "FEASIBLE"}, a \in solutions}
        \cup (IF solutions = {} THEN {[status |-> "INFEASIBLE", values |-> {}]} ELSE {})
        \cup {[status |-> "UNKNOWN", values |-> {}]}

----------------------------------------------------------------------------
(* The result document *)

NoOutput == [status |-> "NONE", assignments |-> <<>>, diagnostic |-> {}]

ImportErrorOutput ==
    [status |-> "ERROR",
     assignments |-> <<>>,
     diagnostic |-> {[message |-> "OR-Tools import failed.",
                      details |-> <<"str(exc)", "Install with: pip install ortools">>]}]

\* Variant: the empty-input diagnostic carries a message but no detail line
MissingInputWithoutDetails ==
    [status |-> "INFEASIBLE",
     assignments |-> <<>>,
     diagnostic |-> {[message |-> "Missing students or shifts.", details |-> <<>>]}]

MissingInputOutput ==
    [status |-> "INFEASIBLE",
     assignments |-> <<>>,
     diagnostic |-> {[message |-> "Missing students or shifts.",
                      details |-> <<"Need at least one student and one generated shift.">>]}]

NoBlockOutput(p) ==
    [status |-> "INFEASIBLE",
     assignments |-> <<>>,
     diagnostic |-> {[message |-> "No feasible overnight block exists in the current window.",
                      details |-> <<"Required overnight shifts/student: "
                                        \o ToString(OvernightRequired(p)),
                                    "No contiguous overnight run is available from shift offerings and dates.">>]}]

\* Variant: the shifts are iterated in the outer loop, the students inside
AssignmentsByShiftFirst(p, values) ==
    LET n_students == Len(p.students)
        all_pairs == [n \in 1..(n_students * Len(p.shifts)) |->
                         <<((n - 1) % n_students) + 1, ((n - 1) \div n_students) + 1>>]
        chosen == SelectSeq(all_pairs, LAMBDA pr : pr \in values)
    IN  [n \in 1..Len(chosen) |->
            [studentId |-> p.students[chosen[n][1]].id,
             shiftInstanceId |-> p.shifts[chosen[n][2]].id]]

\* for s_idx ...: for sh_idx ...: if solver.Value(x[(s_idx, sh_idx)]) == 1: append
Assignments(p, values) ==
    LET n_shifts == Len(p.shifts)
        all_pairs == [n \in 1..(Len(p.students) * n_shifts) |->
                         <<((n - 1) \div n_shifts) + 1, ((n - 1) % n_shifts) + 1>>]
        chosen == SelectSeq(all_pairs, LAMBDA pr : pr \in values)
    IN  [n \in 1..Len(chosen) |->
            [studentId |-> p.students[chosen[n][1]].id,
             shiftInstanceId |-> p.shifts[chosen[n][2]].id]]

SuccessOutput(p, status, values) ==
    [status |-> IF status = "OPTIMAL" THEN "OPTIMAL" ELSE "FEASIBLE",
     assignments |-> Assignments(p, values),
     diagnostic |-> {}]

InfeasibleOutput(p) ==
    [status |-> "INFEASIBLE",
     assignments |-> <<>>,
     diagnostic |->
        {[message |-> "No feasible schedule exists for the current rules.",
          details |->
            <<"User requested shifts/student: " \o ToString(UserTarget(p)),
              "Required overnight shifts/student: " \o ToString(OvernightRequired(p)),
              "Internal target assignments/student: " \o ToString(Target(p)),
              "Required assignments: " \o ToString(Len(p.students) * Target(p)),
              "Shift capacity (if all unique): " \o ToString(Len(p.shifts)),
              "Double booking: " \o (IF ~NoDoubleBooking(Rules(p)) THEN "off" ELSE "on"),
              "Check min/max per-shift-type constraints and rest-hour conflicts.">>]}]

----------------------------------------------------------------------------
(* Required keys of the input document *)

\* payload["project"], payload["shiftInstances"], project["students"],
\* project["shiftTemplates"], project["rules"]
TopLevelKeys == {"project", "shiftInstances", "students", "shiftTemplates", "rules"}

\* sh["templateId"], sh["startDateTime"], sh["endDateTime"] of every shift and
\* rules["numShiftsRequired"], all looked up while the model is built
BuildKeysPresent(p) ==
    /\ "numShiftsRequired" \notin p.missing
    /\ \A i \in Shifts(p) :
           p.shifts[i].absent \cap {"templateId", "startDateTime", "endDateTime"} = {}

\* shift["id"] of every shift that is written to the assignment list
AssignedIdsPresent(p, values) ==
    \A pr \in values : "id" \notin p.shifts[pr[2]].absent

----------------------------------------------------------------------------
(* The result branch *)

\* Variant: a search that stops without a verdict is reported as an error
OutputForUnknownAsError(p, status, values) ==
    IF status \in {"OPTIMAL", "FEASIBLE"} THEN SuccessOutput(p, status, values)
    ELSE IF status = "UNKNOWN" THEN [InfeasibleOutput(p) EXCEPT !.status = "ERROR"]
    ELSE InfeasibleOutput(p)

\* if status in (cp_model.OPTIMAL, cp_model.FEASIBLE): ... else: ...
OutputFor(p, status, values) ==
    IF status \in {"OPTIMAL", "FEASIBLE"} THEN SuccessOutput(p, status, values)
    ELSE InfeasibleOutput(p)

----------------------------------------------------------------------------
(* Input documents *)

StudentList(n) == [k \in 1..n |-> [id |-> "s" \o ToString(k)]]

ShiftTemplates ==
    << [id |-> "T_night", shiftTypeId |-> {"ov"}],
       [id |-> "T_trauma", shiftTypeId |-> {"tr"}],
       [id |-> "T_free", shiftTypeId |-> {}],
       [id |-> "T_orphan", shiftTypeId |-> {"zz"}],
       [id |-> "T_night2", shiftTypeId |-> {"ov2"}] >>

\* a shift instance; absent names the keys its JSON object lacks, isOvernight
\* is the hint the shift generator sets for its overnight templates
Shift(id, templateId, start, end) ==
    [id |-> id, templateId |-> templateId, startDateTime |-> start, endDateTime |-> end,
     isOvernight |-> (templateId = "T_night"), absent |-> {}]

\* Sunday 22:00 is hour 22, Monday 08:00 is hour 32, Tuesday 08:00 is hour 56.
\* T_gone is a template id that the project does not define.
Catalogue ==
    << Shift("N0", "T_night", Z(22), Z(30)),
       Shift("N1", "T_night", Naive(46), Naive(54)),
       Shift("N2", "T_night", WithOffset(65, -5), WithOffset(73, -5)),
       Shift("A1", "T_trauma", Z(32), Z(40)),
       Shift("A2", "T_trauma", Z(56), Z(64)),
       Shift("F1", "T_gone", Z(36), Z(44)),
       Shift("E1", "T_free", Z(49), Z(53)) >>

\* the entries of a catalogue chosen by the index set J, in catalogue order
Pick(catalogue, J) ==
    [r \in 1..Cardinality(J) |->
        catalogue[CHOOSE j \in J : Cardinality({k \in J : k < j}) = r - 1]]

ShiftLists(catalogue) ==
    {Pick(catalogue, J) : J \in {K \in SUBSET DOMAIN catalogue : Cardinality(K) <= MaxShifts}}

OptionalBounds(max) == {{}} \cup {{n} : n \in 1..max}

TypeBoundChoices ==
    {[min |-> {}, max |-> {}]}
    \cup {[min |-> {n}, max |-> {}] : n \in 1..MaxTypeBound}
    \cup {[min |-> {}, max |-> {n}] : n \in 1..MaxTypeBound}

ShiftTypes(overnightMin, traumaBounds) ==
    << [id |-> "ov", name |-> "Overnight", minShifts |-> overnightMin, maxShifts |-> {}],
       [id |-> "tr", name |-> "Trauma", minShifts |-> traumaBounds.min,
        maxShifts |-> traumaBounds.max] >>

Conference(day, startHour, endHour, timezone) ==
    [day |-> day, start |-> [hour |-> startHour, minute |-> 0],
     end |-> [hour |-> endHour, minute |-> 0], timezone |-> timezone]

RulesOf(required, timeOff, noDouble, conf) ==
    [numShiftsRequired |-> required,
     timeOffHours |-> timeOff,
     noDoubleBooking |-> noDouble,
     conferenceDay |-> conf.day,
     conferenceStartTime |-> conf.start,
     conferenceEndTime |-> conf.end,
     timezone |-> conf.timezone]

\* the input document; missing names the keys it lacks among project,
\* shiftInstances, students, shiftTemplates, rules and numShiftsRequired
Payload(students, shifts, shiftTypes, rules) ==
    [students |-> students, shifts |-> shifts, shiftTemplates |-> ShiftTemplates,
     shiftTypes |-> shiftTypes, rules |-> rules, missing |-> {}]

NoPayload == Payload(<<>>, <<>>, <<>>, RulesOf(0, 0, {}, Conference(DefaultConferenceDay, 8, 12, "UTC")))

TimeOffChoices == {2, 8}

\* Quota inputs: the conference (Thursday morning, New York) touches no
\* catalogue shift; the roster, the offered shifts, the overnight minimum,
\* the required total, the rest time and double booking vary
ThursdayMorning == Conference(5, 8, 12, "America/New_York")

NoBounds == [min |-> {}, max |-> {}]

QuotaInputs ==
    {Payload(StudentList(n), shifts, ShiftTypes(ovMin, NoBounds),
             RulesOf(required, timeOff, noDouble, ThursdayMorning)) :
        n \in 0..MaxStudents,
        shifts \in ShiftLists(Catalogue),
        ovMin \in OptionalBounds(MaxOvernightMin),
        required \in 0..MaxRequired,
        timeOff \in TimeOffChoices,
        noDouble \in {{}, {TRUE}, {FALSE}}}

\* Bound inputs: as the quota inputs, with the per-type bounds of the
\* Trauma shift type varying and the rest time and double booking fixed
BoundInputs ==
    {Payload(StudentList(n), shifts, ShiftTypes(ovMin, trB),
             RulesOf(required, 2, {}, ThursdayMorning)) :
        n \in 1..MaxStudents,
        shifts \in ShiftLists(Catalogue),
        ovMin \in OptionalBounds(MaxOvernightMin),
        trB \in TypeBoundChoices,
        required \in 0..MaxRequired}

\* Saturday 22:00 is hour 166
ConferenceCatalogue ==
    << Shift("N0", "T_night", Z(22), Z(30)),
       Shift("N1", "T_night", Naive(46), Naive(54)),
       Shift("N6", "T_night", Z(166), Z(174)),
       Shift("A1", "T_trauma", Z(32), Z(40)),
       Shift("E1", "T_free", Z(49), Z(53)) >>

ConferenceDays == {1, 2, 3}

\* a morning window and a window that runs past midnight
ConferenceHours == {<<8, 12>>, <<22, 6>>}

Timezones == {"UTC", "America/New_York", "Asia/Tokyo", "Mars/Olympus"}

\* Conference inputs: the conference day, its window and the time zone vary
ConferenceInputs ==
    {Payload(StudentList(n), shifts, ShiftTypes(ovMin, NoBounds),
             RulesOf(required, 0, {}, Conference(day, hours[1], hours[2], tz))) :
        n \in 1..MaxStudents,
        shifts \in ShiftLists(ConferenceCatalogue),
        ovMin \in OptionalBounds(MaxOvernightMin),
        required \in 0..MaxRequired,
        day \in ConferenceDays,
        hours \in ConferenceHours,
        tz \in Timezones}

\* Scenario S3: one student, ScenarioNights overnight shifts on consecutive
\* days, Overnight minShifts = 3 and numShiftsRequired = 3
ScenarioNights == 10

NightRun(n) ==
    [d \in 1..n |->
        Shift("N" \o ToString(d - 1), "T_night", Z(22 + 24 * (d - 1)), Z(30 + 24 * (d - 1)))]

ScenarioS3Inputs ==
    {Payload(StudentList(1), NightRun(ScenarioNights), ShiftTypes({3}, NoBounds),
             RulesOf(3, timeOff, noDouble, ThursdayMorning)) :
        timeOff \in {0, 8}, noDouble \in {{}, {TRUE}, {FALSE}}}

----------------------------------------------------------------------------
(* main() *)

\* Block inputs: overnight shifts of two sites; the second site's overnight
\* shifts start an hour before, or together with, those of the first
BlockCatalogue ==
    << Shift("N0", "T_night", Z(22), Z(30)),
       Shift("C1", "T_night", Z(45), Z(53)),
       Shift("N1", "T_night", Z(46), Z(54)),
       Shift("M1", "T_night", Z(46), Z(54)),
       Shift("N2", "T_night", Z(70), Z(78)),
       Shift("A1", "T_trauma", Z(32), Z(40)) >>

BlockInputs ==
    {Payload(StudentList(n), shifts, ShiftTypes(ovMin, NoBounds),
             RulesOf(required, 2, {}, ThursdayMorning)) :
        n \in 0..MaxStudents,
        shifts \in ShiftLists(BlockCatalogue),
        ovMin \in OptionalBounds(MaxOvernightMin),
        required \in 0..MaxRequired}

\* Key inputs: documents that lack one required key, or none
KeyCatalogue ==
    << Shift("N0", "T_night", Z(22), Z(30)),
       Shift("N1", "T_night", Z(46), Z(54)),
       Shift("A1", "T_trauma", Z(32), Z(40)) >>

\* the required keys of a shift instance
ShiftKeys == {"id", "templateId", "startDateTime", "endDateTime"}

KeyChoices == {"none", "numShiftsRequired"} \cup TopLevelKeys \cup ShiftKeys

\* the document p without the key: a key of the document, or a key of its
\* shift instance i
Lacking(p, key, i) ==
    IF key = "none" THEN p
    ELSE IF key \in ShiftKeys
         THEN IF i \in Shifts(p) THEN [p EXCEPT !.shifts[i].absent = {key}] ELSE p
         ELSE [p EXCEPT !.missing = {key}]

KeyInputs ==
    {Lacking(Payload(StudentList(n), shifts, ShiftTypes(ovMin, NoBounds),
                     RulesOf(required, 2, {}, ThursdayMorning)), key, i) :
        n \in 0..MaxStudents,
        shifts \in ShiftLists(KeyCatalogue),
        ovMin \in OptionalBounds(MaxOvernightMin),
        required \in 1..2,
        key \in KeyChoices,
        i \in 1..MaxShifts}

\* the input p with the isOvernight hint of shift i set to flags[i]
WithHints(p, flags) ==
    [p EXCEPT !.shifts = [i \in DOMAIN p.shifts |-> [p.shifts[i] EXCEPT !.isOvernight = flags[i]]]]

\* the input p with the name of its first shift type replaced
WithTypeName(p, name) == [p EXCEPT !.shiftTypes[1].name = name]

\* Hint inputs: the isOvernight hints are all set, all clear, or as the
\* shift generator sets them; the name of the overnight type varies
HintCatalogue ==
    << Shift("N0", "T_night", Z(22), Z(30)),
       Shift("N1", "T_night", Z(46), Z(54)),
       Shift("A1", "T_trauma", Z(32), Z(40)),
       Shift("E1", "T_free", Z(49), Z(53)) >>

OvernightNames == {"Overnight", " overnight ", "Overnight Float"}

HintInputs ==
    {WithTypeName(
        WithHints(Payload(StudentList(n), shifts, ShiftTypes(ovMin, NoBounds),
                          RulesOf(required, 2, {}, ThursdayMorning)),
                  [i \in DOMAIN shifts |-> IF hint = {} THEN shifts[i].isOvernight ELSE Some(hint)]),
        name) :
        n \in 0..MaxStudents,
        shifts \in ShiftLists(HintCatalogue),
        ovMin \in OptionalBounds(MaxOvernightMin),
        required \in 0..MaxRequired,
        hint \in {{}, {TRUE}, {FALSE}},
        name \in OvernightNames}

\* Rest inputs: shifts that follow each other after 2, 6 and 9 hours, with
\* the rest time varying
RestCatalogue ==
    << Shift("N0", "T_night", Z(22), Z(30)),
       Shift("A1", "T_trauma", Z(32), Z(40)),
       Shift("N1", "T_night", Z(46), Z(54)),
       Shift("A2", "T_trauma", Z(56), Z(64)),
       Shift("E1", "T_free", Z(49), Z(53)) >>

RestInputs ==
    {Payload(StudentList(n), shifts, ShiftTypes(ovMin, NoBounds),
             RulesOf(required, timeOff, {}, ThursdayMorning)) :
        n \in 0..MaxStudents,
        shifts \in ShiftLists(RestCatalogue),
        ovMin \in OptionalBounds(MaxOvernightMin),
        required \in 0..MaxRequired,
        timeOff \in TimeOffChoices}

\* Degenerate inputs: a shift that ends when it starts and a shift that ends
\* before it starts, among regular shifts
DegenerateCatalogue ==
    << Shift("N0", "T_night", Z(22), Z(30)),
       Shift("Z1", "T_trauma", Z(32), Z(32)),
       Shift("R1", "T_trauma", Z(44), Z(36)),
       Shift("A2", "T_trauma", Z(56), Z(64)) >>

DegenerateInputs ==
    {Payload(StudentList(n), shifts, ShiftTypes(ovMin, NoBounds),
             RulesOf(required, 2, {}, ThursdayMorning)) :
        n \in 0..MaxStudents,
        shifts \in ShiftLists(DegenerateCatalogue),
        ovMin \in OptionalBounds(MaxOvernightMin),
        required \in 0..MaxRequired}

\* Untyped inputs: shifts whose template is unknown (F1), has no shiftTypeId
\* (E1) or names an unknown shift type (O1), beside typed ones; the Monday
\* conference covers 13:00Z-17:00Z, hours 37 to 41
UntypedCatalogue ==
    << Shift("N0", "T_night", Z(22), Z(30)),
       Shift("A1", "T_trauma", Z(42), Z(50)),
       Shift("F1", "T_gone", Z(36), Z(44)),
       Shift("E1", "T_free", Z(49), Z(53)),
       Shift("O1", "T_orphan", Z(56), Z(64)) >>

MondayMorning == Conference(2, 8, 12, "America/New_York")

UntypedInputs ==
    {Payload(StudentList(n), shifts, ShiftTypes(ovMin, trB),
             RulesOf(required, 2, {}, conf)) :
        n \in 0..MaxStudents,
        shifts \in ShiftLists(UntypedCatalogue),
        ovMin \in OptionalBounds(MaxOvernightMin),
        trB \in TypeBoundChoices,
        required \in 0..MaxRequired,
        conf \in {ThursdayMorning, MondayMorning}}

\* Long-rest inputs: overnight shifts on consecutive days, the first of them
\* 26 hours long, so that it overlaps the next; the rest time is 8 or 20
\* hours, and the overnight shifts of a block lie 16 hours apart
LongRestCatalogue ==
    << Shift("L0", "T_night", Z(22), Z(48)),
       Shift("N1", "T_night", Z(46), Z(54)),
       Shift("N2", "T_night", Z(70), Z(78)),
       Shift("B0", "T_trauma", Z(2), Z(10)),
       Shift("A3", "T_trauma", Z(80), Z(88)) >>

LongRestChoices == {8, 20}

LongRestInputs ==
    {Payload(StudentList(n), shifts, ShiftTypes(ovMin, NoBounds),
             RulesOf(required, timeOff, {}, ThursdayMorning)) :
        n \in 0..MaxStudents,
        shifts \in ShiftLists(LongRestCatalogue),
        ovMin \in OptionalBounds(MaxOvernightMin),
        required \in 0..MaxRequired,
        timeOff \in LongRestChoices}

\* Capacity inputs: double booking on, off or left out; the Monday conference
\* blocks C1 and bans the overnight N0, the Thursday conference bans the
\* overnight N3
CapacityCatalogue ==
    << Shift("N0", "T_night", Z(22), Z(30)),
       Shift("C1", "T_trauma", Z(36), Z(44)),
       Shift("A1", "T_trauma", Z(46), Z(54)),
       Shift("A2", "T_trauma", Z(70), Z(78)),
       Shift("N3", "T_night", Z(94), Z(102)) >>

CapacityInputs ==
    {Payload(StudentList(n), shifts, ShiftTypes(ovMin, NoBounds),
             RulesOf(required, 2, noDouble, conf)) :
        n \in 0..MaxStudents,
        shifts \in ShiftLists(CapacityCatalogue),
        ovMin \in OptionalBounds(MaxOvernightMin),
        required \in 0..MaxRequired,
        noDouble \in {{}, {TRUE}, {FALSE}},
        conf \in {ThursdayMorning, MondayMorning}}

\* Type-order inputs: two shift types named Overnight, of two sites, each
\* with its own minShifts
TypeOrderCatalogue ==
    << Shift("N0", "T_night", Z(22), Z(30)),
       Shift("N1", "T_night", Z(46), Z(54)),
       Shift("M2", "T_night2", Z(70), Z(78)),
       Shift("A1", "T_trauma", Z(32), Z(40)) >>

TwoOvernightTypes(firstMin, secondMin) ==
    << [id |-> "ov", name |-> "Overnight", minShifts |-> firstMin, maxShifts |-> {}],
       [id |-> "ov2", name |-> "OVERNIGHT", minShifts |-> secondMin, maxShifts |-> {}],
       [id |-> "tr", name |-> "Trauma", minShifts |-> {}, maxShifts |-> {}] >>

TypeOrderInputs ==
    {Payload(StudentList(n), shifts, TwoOvernightTypes(firstMin, secondMin),
             RulesOf(required, 2, {}, ThursdayMorning)) :
        n \in 0..MaxStudents,
        shifts \in ShiftLists(TypeOrderCatalogue),
        firstMin \in OptionalBounds(MaxOvernightMin),
        secondMin \in OptionalBounds(MaxOvernightMin),
        required \in 0..MaxRequired}

Init ==
    /\ argc \in {2, 3, 4}
    /\ payload = NoPayload
    /\ pc = "start"
    /\ solverStatus = "NONE"
    /\ x = {}
    /\ out = NoOutput
    /\ writes = 0
    /\ exitCode = {}

\* Variant: the count is compared without the program name
BadArgumentsIgnoringProgramName ==
    /\ pc = "start"
    /\ argc # ExpectedArgc - 1
    /\ exitCode' = {UsageExit}
    /\ pc' = "exit"
    /\ UNCHANGED <<argc, payload, solverStatus, x, out, writes>>

\* if len(sys.argv) != 3: return 2
BadArguments ==
    /\ pc = "start"
    /\ argc # ExpectedArgc
    /\ exitCode' = {UsageExit}
    /\ pc' = "exit"
    /\ UNCHANGED <<argc, payload, solverStatus, x, out, writes>>

\* json.load and the lookups of the required keys
ReadInput(inputs) ==
    /\ pc = "start"
    /\ argc = ExpectedArgc
    /\ \E p \in inputs : p.missing \cap TopLevelKeys = {} /\ payload' = p
    /\ pc' = "import"
    /\ UNCHANGED <<argc, solverStatus, x, out, writes, exitCode>>

\* json.dump(out, open(output_path, "w")); return 0
WriteAndExit(doc) ==
    /\ out' = doc
    /\ writes' = writes + 1
    /\ exitCode' = {0}
    /\ pc' = "exit"

\* from ortools.sat.python import cp_model raises
ImportFails ==
    /\ pc = "import"
    /\ WriteAndExit(ImportErrorOutput)
    /\ UNCHANGED <<argc, payload, solverStatus, x>>

ImportSucceeds ==
    /\ pc = "import"
    /\ pc' = "check"
    /\ UNCHANGED <<argc, payload, solverStatus, x, out, writes, exitCode>>

\* if not students or not shifts
MissingInput ==
    /\ pc = "check"
    /\ (Len(payload.students) = 0 \/ Len(payload.shifts) = 0)
    /\ WriteAndExit(MissingInputOutput)
    /\ UNCHANGED <<argc, payload, solverStatus, x>>

NeedsBlock(p) == OvernightRequired(p) > 1

\* Variant: the block analysis runs before the empty-input test
NoValidWindowBeforeEmptyCheck ==
    /\ pc = "check"
    /\ BuildKeysPresent(payload)
    /\ NeedsBlock(payload) /\ ValidWindows(payload) = {}
    /\ WriteAndExit(NoBlockOutput(payload))
    /\ UNCHANGED <<argc, payload, solverStatus, x>>

\* if not valid_windows
NoValidWindow ==
    /\ pc = "check"
    /\ Len(payload.students) > 0 /\ Len(payload.shifts) > 0
    /\ BuildKeysPresent(payload)
    /\ NeedsBlock(payload) /\ ValidWindows(payload) = {}
    /\ WriteAndExit(NoBlockOutput(payload))
    /\ UNCHANGED <<argc, payload, solverStatus, x>>

\* the model is complete: every constraint of Satisfies is posted
BuildModel ==
    /\ pc = "check"
    /\ Len(payload.students) > 0 /\ Len(payload.shifts) > 0
    /\ BuildKeysPresent(payload)
    /\ ~(NeedsBlock(payload) /\ ValidWindows(payload) = {})
    /\ pc' = "solve"
    /\ UNCHANGED <<argc, payload, solverStatus, x, out, writes, exitCode>>

\* status = solver.Solve(model)
Solve ==
    /\ pc = "solve"
    /\ \E o \in SolverOutcomes(payload) :
           /\ solverStatus' = o.status
           /\ x' = o.values
    /\ pc' = "emit"
    /\ UNCHANGED <<argc, payload, out, writes, exitCode>>

\* if status in (cp_model.OPTIMAL, cp_model.FEASIBLE)
EmitAssignments ==
    /\ pc = "emit"
    /\ solverStatus \in {"OPTIMAL", "FEASIBLE"}
    /\ AssignedIdsPresent(payload, x)
    /\ WriteAndExit(OutputFor(payload, solverStatus, x))
    /\ UNCHANGED <<argc, payload, solverStatus, x>>

EmitInfeasible ==
    /\ pc = "emit"
    /\ solverStatus \notin {"OPTIMAL", "FEASIBLE"}
    /\ WriteAndExit(OutputFor(payload, solverStatus, x))
    /\ UNCHANGED <<argc, payload, solverStatus, x>>

\* an uncaught KeyError ends the process: nothing is written, the exit
\* status of the interpreter is 1
Crash ==
    /\ exitCode' = {UncaughtExit}
    /\ pc' = "crash"
    /\ UNCHANGED <<argc, solverStatus, x, out, writes>>

\* one of the lookups at lines 53-58 raises KeyError
ReadFails(inputs) ==
    /\ pc = "start"
    /\ argc = ExpectedArgc
    /\ \E p \in inputs : p.missing \cap TopLevelKeys # {} /\ payload' = p
    /\ Crash

\* a lookup at lines 109-129 raises KeyError
BuildFails ==
    /\ pc = "check"
    /\ Len(payload.students) > 0 /\ Len(payload.shifts) > 0
    /\ ~BuildKeysPresent(payload)
    /\ UNCHANGED payload
    /\ Crash

\* shift["id"] at line 281 raises KeyError
EmitFails ==
    /\ pc = "emit"
    /\ solverStatus \in {"OPTIMAL", "FEASIBLE"}
    /\ ~AssignedIdsPresent(payload, x)
    /\ UNCHANGED payload
    /\ Crash

Run ==
    \/ BadArguments
    \/ ImportFails
    \/ ImportSucceeds
    \/ MissingInput
    \/ NoValidWindow
    \/ BuildModel
    \/ Solve
    \/ EmitAssignments
    \/ EmitInfeasible

ReadQuotaInput == ReadInput(QuotaInputs \cup ScenarioS3Inputs)

Next == ReadQuotaInput \/ Run

Spec == Init /\ [][Next]_vars

ReadBoundInput == ReadInput(BoundInputs)

NextBounds == ReadBoundInput \/ Run

SpecBounds == Init /\ [][NextBounds]_vars

ReadConferenceInput == ReadInput(ConferenceInputs)

NextConference == ReadConferenceInput \/ Run

SpecConference == Init /\ [][NextConference]_vars

ReadBlockInput == ReadInput(BlockInputs)

NextBlocks == ReadBlockInput \/ Run

SpecBlocks == Init /\ [][NextBlocks]_vars

ReadKeyInput == ReadInput(KeyInputs)

ReadKeyFails == ReadFails(KeyInputs)

NextKeys == ReadKeyInput \/ ReadKeyFails \/ BuildFails \/ EmitFails \/ Run

SpecKeys == Init /\ [][NextKeys]_vars

ReadHintInput == ReadInput(HintInputs)

NextHints == ReadHintInput \/ Run

SpecHints == Init /\ [][NextHints]_vars

ReadRestInput == ReadInput(RestInputs)

NextRest == ReadRestInput \/ Run

SpecRest == Init /\ [][NextRest]_vars

ReadDegenerateInput == ReadInput(DegenerateInputs)

NextDegenerate == ReadDegenerateInput \/ Run

SpecDegenerate == Init /\ [][NextDegenerate]_vars

ReadUntypedInput == ReadInput(UntypedInputs)

NextUntyped == ReadUntypedInput \/ Run

SpecUntyped == Init /\ [][NextUntyped]_vars

ReadLongRestInput == ReadInput(LongRestInputs)

NextLongRest == ReadLongRestInput \/ Run

SpecLongRest == Init /\ [][NextLongRest]_vars

ReadCapacityInput == ReadInput(CapacityInputs)

NextCapacity == ReadCapacityInput \/ Run

SpecCapacity == Init /\ [][NextCapacity]_vars

ReadTypeOrderInput == ReadInput(TypeOrderInputs)

NextTypeOrder == ReadTypeOrderInput \/ Run

SpecTypeOrder == Init /\ [][NextTypeOrder]_vars

----------------------------------------------------------------------------
(* What the claims speak about: the written document and the input *)

Success == pc = "exit" /\ out.status \in {"OPTIMAL", "FEASIBLE"}

\* the emitted assignments whose studentId is that of student s
EmittedFor(s) ==
    {n \in DOMAIN out.assignments : out.assignments[n].studentId = payload.students[s].id}

\* the shifts those assignments reference
AssignedShifts(s) ==
    {i \in Shifts(payload) :
        \E n \in EmittedFor(s) : out.assignments[n].shiftInstanceId = payload.shifts[i].id}

AssignedOvernights(s) == {i \in AssignedShifts(s) : IsOvernightShift(payload, i)}

EffectiveTarget ==
    Max(0, payload.rules.numShiftsRequired - Max(0, OvernightRequired(payload) - 1))

\* the starts of a set of shifts are pairwise different and each but the
\* earliest is exactly one day after another one
DailyRun(S) ==
    LET starts == {StartOf(payload, i) : i \in S}
    IN  /\ Cardinality(starts) = Cardinality(S)
        /\ \A t \in starts :
               (\A u \in starts : t <= u) \/ (t - SecondsPerDay) \in starts

(* C1: on every successful solve each student has exactly effectiveTarget  *)
(* emitted assignments, effectiveTarget = max(0, numShiftsRequired -       *)
(* max(0, overnightRequired - 1)).                                         *)


C2_OvernightCountIsRequired ==
    Success =>
        \A s \in Students(payload) :
            Cardinality(AssignedOvernights(s)) = OvernightRequired(payload)

(* C2, amended: when overnightRequired > 0, on every successful solve each *)
(* student's number of emitted overnight assignments equals                *)
(* overnightRequired.                                                      *)
C2_OvernightCountWhenRequired ==
    (Success /\ OvernightRequired(payload) > 0) =>
        \A s \in Students(payload) :
            Cardinality(AssignedOvernights(s)) = OvernightRequired(payload)

C2_Witness ==
    /\ Success
    /\ OvernightRequired(payload) > 0
    /\ Cardinality(OvernightShiftIndices(payload)) > OvernightRequired(payload)
    /\ payload.rules.numShiftsRequired > OvernightRequired(payload)
    /\ \E s \in Students(payload) :
           Cardinality(AssignedOvernights(s)) = OvernightRequired(payload)

IsScenarioS3(p) ==
    /\ Len(p.students) = 1
    /\ Len(p.shifts) = ScenarioNights
    /\ \A i \in Shifts(p) : p.shifts[i].templateId = "T_night"
    /\ \A i \in Shifts(p) : i > 1 => StartOf(p, i) - StartOf(p, i - 1) = SecondsPerDay
    /\ p.shiftTypes[1].name = "Overnight" /\ p.shiftTypes[1].minShifts = {3}
    /\ p.rules.numShiftsRequired = 3

(* C3: in scenario S3 (1 student, 10 overnight shifts on consecutive days, *)
(* Overnight minShifts = 3, numShiftsRequired = 3) a run that the solver   *)
(* finishes within its time limit ends OPTIMAL or FEASIBLE and the student *)
(* receives exactly 3 overnight assignments whose starts are 24 h apart.   *)
C3_ScenarioS3Feasible ==
    (pc = "exit" /\ IsScenarioS3(payload) /\ solverStatus \notin {"NONE", "UNKNOWN"}) =>
        /\ Success
        /\ Cardinality(AssignedOvernights(1)) = 3
        /\ DailyRun(AssignedOvernights(1))

(* C4: on every successful solve with overnightRequired = k >= 1 and       *)
(* numShiftsRequired >= 1 each student holds the k overnight shifts of one *)
(* block plus exactly numShiftsRequired - 1 non-overnight shifts.          *)
C4_BlockCountsAsOneSlot ==
    (Success /\ OvernightRequired(payload) >= 1 /\ payload.rules.numShiftsRequired >= 1) =>
        \A s \in Students(payload) :
            /\ Cardinality(AssignedOvernights(s)) = OvernightRequired(payload)
            /\ DailyRun(AssignedOvernights(s))
            /\ Cardinality(AssignedShifts(s) \ AssignedOvernights(s))
                   = payload.rules.numShiftsRequired - 1

(* C5: when overnightRequired > 1, on every successful solve each          *)
(* student's overnight assignments are overnightRequired overnight shifts  *)
(* whose starts, in ascending order, are each exactly 86,400 seconds after *)
(* the previous one, and the student is assigned no other shift that       *)
(* overlaps the span from the block's first start to its last end.         *)
C5_OneBlockReservesItsSpan ==
    (Success /\ OvernightRequired(payload) > 1) =>
        \A s \in Students(payload) :
            LET block == AssignedOvernights(s)
                first == CHOOSE i \in block : \A j \in block : StartOf(payload, i) <= StartOf(payload, j)
                last == CHOOSE i \in block : \A j \in block : StartOf(payload, j) <= StartOf(payload, i)
            IN  /\ Cardinality(block) = OvernightRequired(payload)
                /\ DailyRun(block)
                /\ \A j \in AssignedShifts(s) \ block :
                       ~(StartOf(payload, j) < EndOf(payload, last)
                         /\ StartOf(payload, first) < EndOf(payload, j))

\* a student holds a block and a further shift, and the input offers a shift
\* inside the span of that block
C5_Witness ==
    /\ Success
    /\ OvernightRequired(payload) > 1
    /\ \E s \in Students(payload) :
           /\ Cardinality(AssignedOvernights(s)) = OvernightRequired(payload)
           /\ AssignedShifts(s) \ AssignedOvernights(s) # {}
           /\ \E j \in Shifts(payload) \ AssignedShifts(s) :
                  /\ ~IsOvernightShift(payload, j)
                  /\ \E i \in AssignedOvernights(s) : \E k \in AssignedOvernights(s) :
                         /\ EndOf(payload, i) <= StartOf(payload, j)
                         /\ EndOf(payload, j) <= StartOf(payload, k)

\* later start minus earlier end
Gap(i, j) ==
    IF StartOf(payload, i) <= StartOf(payload, j)
    THEN StartOf(payload, j) - EndOf(payload, i)
    ELSE StartOf(payload, i) - EndOf(payload, j)

(* C6: on every successful solve any two distinct shifts assigned to one   *)
(* student do not overlap in absolute time and lie at least timeOffHours * *)
(* 3600 seconds apart; a gap of exactly timeOffHours is allowed.           *)
C6_RestBetweenShifts ==
    Success =>
        \A s \in Students(payload) : \A i \in AssignedShifts(s) : \A j \in AssignedShifts(s) :
            i # j =>
                /\ ~(StartOf(payload, i) < EndOf(payload, j) /\ StartOf(payload, j) < EndOf(payload, i))
                /\ Gap(i, j) >= payload.rules.timeOffHours * 3600

\* two shifts of one student exactly timeOffHours apart
C6_Witness ==
    /\ Success
    /\ payload.rules.timeOffHours > 0
    /\ \E s \in Students(payload) : \E i \in AssignedShifts(s) : \E j \in AssignedShifts(s) :
           i # j /\ Gap(i, j) = payload.rules.timeOffHours * 3600

(* C9: if rules.noDoubleBooking is true or absent (shift instance ids      *)
(* being unique), on every successful solve no shiftInstanceId appears in  *)
(* more than one emitted assignment.                                       *)
C9_NoDoubleBooking ==
    (Success /\ payload.rules.noDoubleBooking \in {{}, {TRUE}}) =>
        \A m \in DOMAIN out.assignments : \A n \in DOMAIN out.assignments :
            m # n => out.assignments[m].shiftInstanceId # out.assignments[n].shiftInstanceId

\* several students hold shifts and every offered shift is assigned, each once
C9_Witness ==
    /\ Success
    /\ payload.rules.noDoubleBooking \in {{}, {TRUE}}
    /\ Len(payload.students) > 1
    /\ \A s \in Students(payload) : EmittedFor(s) # {}
    /\ Len(out.assignments) = Len(payload.shifts)

\* the local wall clock reading of an instant in the project's time zone
Local(t) == AsTimezone(t, payload.rules.timezone)

\* the blackout window of local day number day
WindowStart(day) == LocalDateTime(day, payload.rules.conferenceStartTime)

WindowEnd(day) ==
    IF LocalDateTime(day, payload.rules.conferenceEndTime) <= WindowStart(day)
    THEN LocalDateTime(day, payload.rules.conferenceEndTime) + SecondsPerDay
    ELSE LocalDateTime(day, payload.rules.conferenceEndTime)

\* shift i overlaps the window of some local date with weekday conferenceDay;
\* a window ends before the second midnight after its date begins
InBlackout(i) ==
    \E day \in (DateOf(Local(StartOf(payload, i))) - 1)..DateOf(Local(EndOf(payload, i))) :
        /\ SwiftWeekday(day) = payload.rules.conferenceDay
        /\ Local(StartOf(payload, i)) < WindowEnd(day)
        /\ WindowStart(day) < Local(EndOf(payload, i))

(* C7: on every successful solve no assigned shift overlaps a conference   *)
(* blackout window in local time, a window existing on every local date    *)
(* with weekday conferenceDay and running 24 hours longer when             *)
(* conferenceEnd <= conferenceStart; this includes a shift that starts     *)
(* after midnight inside a window that began the day before.               *)
C7_NoShiftInBlackout ==
    Success => \A s \in Students(payload) : \A i \in AssignedShifts(s) : ~InBlackout(i)

(* C8: on every successful solve, for every student and every shift type   *)
(* of project.shiftTypes that defines minShifts and/or maxShifts, the      *)
(* student's number of assigned shifts of that type lies within the        *)
(* bounds, also for a shift type without any shift instance.               *)
C8_TypeBoundsHold ==
    Success =>
        \A s \in Students(payload) : \A n \in DOMAIN payload.shiftTypes :
            LET t == payload.shiftTypes[n]
                count == Cardinality({i \in AssignedShifts(s) : TypeIdOfShift(payload, i) = {t.id}})
            IN  /\ \A lo \in t.minShifts : count >= lo
                /\ \A hi \in t.maxShifts : count <= hi

(* C10: on every successful solve no emitted assignment references an      *)
(* overnight shift whose local start weekday is dayBeforeConference (7 if  *)
(* conferenceDay = 1, else conferenceDay - 1); with overnightRequired > 1  *)
(* no chosen block contains such a shift.                                  *)
C10_NoOvernightBeforeConference ==
    Success =>
        \A s \in Students(payload) : \A i \in AssignedOvernights(s) :
            SwiftWeekday(DateOf(Local(StartOf(payload, i))))
                # (IF payload.rules.conferenceDay = 1 THEN 7 ELSE payload.rules.conferenceDay - 1)

\* a block is chosen although the input offers an overnight shift that
\* starts on the Saturday before a Sunday conference
C10_Witness ==
    /\ Success
    /\ payload.rules.conferenceDay = 1
    /\ OvernightRequired(payload) > 1
    /\ \E i \in Shifts(payload) :
           /\ IsOvernightShift(payload, i)
           /\ SwiftWeekday(DateOf(Local(StartOf(payload, i)))) = 7
    /\ \E s \in Students(payload) : AssignedOvernights(s) # {}

----------------------------------------------------------------------------
(* The shape of the output document and the exits of main() *)

\* main() has written its output document
Written == writes > 0

(* C11: every output document written by main has a status in OPTIMAL,    *)
(* FEASIBLE, INFEASIBLE, ERROR; its diagnostic is null exactly when the    *)
(* status is OPTIMAL or FEASIBLE; with INFEASIBLE or ERROR the assignment  *)
(* list is empty and the diagnostic has a message and a non-empty list of  *)
(* details.                                                                *)
C11_OutputShape ==
    Written =>
        /\ out.status \in {"OPTIMAL", "FEASIBLE", "INFEASIBLE", "ERROR"}
        /\ (out.diagnostic = {}) <=> (out.status \in {"OPTIMAL", "FEASIBLE"})
        /\ out.status \in {"INFEASIBLE", "ERROR"} =>
              /\ out.assignments = <<>>
              /\ \E d \in out.diagnostic : Len(d.message) > 0 /\ Len(d.details) > 0

\* the empty-input document has been written
C11_Witness ==
    /\ Written
    /\ out.status = "INFEASIBLE"
    /\ \E d \in out.diagnostic : d.message = "Missing students or shifts."

\* the input has no student or no shift instance
EmptyInput(p) == Len(p.students) = 0 \/ Len(p.shifts) = 0

\* main() returned after the solver library was imported
ReturnedAfterImport == pc = "exit" /\ argc = ExpectedArgc /\ out.status # "ERROR"

(* C12: with the solver library importable, an input whose student list or *)
(* shift list is empty makes main write the INFEASIBLE document with the   *)
(* message 'Missing students or shifts.' and return 0, with no decision    *)
(* variable created and no solve, whatever the rules and shift types are.  *)
C12_EmptyInputShortCircuit ==
    (ReturnedAfterImport /\ EmptyInput(payload)) =>
        /\ out = MissingInputOutput
        /\ writes = 1
        /\ exitCode = {0}
        /\ solverStatus = "NONE"
        /\ x = {}

\* no student, but shifts and an overnight quota above 1 that no block can
\* meet: the empty-input document is written, not the missing-block one
C12_Witness ==
    /\ ReturnedAfterImport
    /\ Len(payload.students) = 0 /\ Len(payload.shifts) > 0
    /\ NeedsBlock(payload) /\ ValidWindows(payload) = {}
    /\ out = MissingInputOutput

----------------------------------------------------------------------------
(* The early exit for a missing overnight block *)

\* the input offers overnightRequired overnight shifts that start on
\* consecutive days, each exactly 86,400 seconds after the one before
DailyRunOffered ==
    \E S \in SUBSET OvernightShiftIndices(payload) :
        Cardinality(S) = OvernightRequired(payload) /\ DailyRun(S)

(* C13: for an input with students and shifts and overnightRequired > 1,   *)
(* main ends with the early INFEASIBLE document 'No feasible overnight     *)
(* block exists in the current window.' exactly when the input contains no *)
(* run of overnightRequired overnight shifts whose consecutive starts are  *)
(* 86,400 seconds apart; whenever such a run is offered the early          *)
(* diagnostic is not emitted.                                              *)
C13_EarlyExitIffNoDailyRun ==
    (ReturnedAfterImport /\ ~EmptyInput(payload) /\ NeedsBlock(payload)) =>
        ((out = NoBlockOutput(payload)) <=> ~DailyRunOffered)

----------------------------------------------------------------------------
(* Solver outcomes and the ERROR status *)

\* the document of the generic failure: its message and seven detail lines
GenericInfeasible(doc) ==
    /\ doc.status = "INFEASIBLE"
    /\ doc.assignments = <<>>
    /\ \E d \in doc.diagnostic :
           /\ d.message = "No feasible schedule exists for the current rules."
           /\ Len(d.details) = 7

(* C14: once the model is built, every solver outcome other than OPTIMAL   *)
(* or FEASIBLE (infeasible, time limit without a feasible point) is        *)
(* reported as INFEASIBLE with the same generic diagnostic, 'No feasible   *)
(* schedule exists for the current rules.' and seven detail lines; the     *)
(* status ERROR is written only by the failed import of the solver         *)
(* library, and the import is attempted before the empty-input test.       *)
C14_FailuresAreGenericInfeasible ==
    /\ [][/\ (pc = "emit" /\ solverStatus \notin {"OPTIMAL", "FEASIBLE"} /\ pc' = "exit")
                => (GenericInfeasible(out') /\ writes' = 1 /\ exitCode' = {0})
          /\ (out'.status = "ERROR" /\ out.status # "ERROR") => pc = "import"
          /\ (pc' = "check" /\ pc # "check") => (pc = "import" /\ writes = 0)]_vars
    /\ [](pc \in {"check", "solve", "emit"} => out.status # "ERROR")

\* the search stopped at its time limit although a schedule exists, and the
\* run reported the generic infeasibility
C14_Witness ==
    /\ pc = "exit"
    /\ solverStatus = "UNKNOWN"
    /\ GenericInfeasible(out)
    /\ Solutions(payload) # {}

----------------------------------------------------------------------------
(* Monotone infeasibility: the model of an input against the model of the  *)
(* same input with one rule tightened                                      *)

\* the input p with numShiftsRequired replaced by r
WithRequired(p, r) == [p EXCEPT !.rules.numShiftsRequired = r]

\* the larger values of numShiftsRequired that are compared with the input's
RaisedRequired(p) == (p.rules.numShiftsRequired + 1)..(MaxRequired + 1)

\* the model has been built for the input and is about to be solved
ModelBuilt == pc = "solve"

\* no shift type of the input defines a minimum above 0
NoTypeMinimum(p) ==
    \A n \in DOMAIN p.shiftTypes : \A lo \in p.shiftTypes[n].minShifts : lo <= 0

(* C15: for two inputs that differ only in that the second has a larger    *)
(* numShiftsRequired, if the constraint model of the first has no          *)
(* satisfying assignment then the model of the second has none either.     *)
C15_MonotoneInRequired ==
    (ModelBuilt /\ Solutions(payload) = {}) =>
        \A r \in RaisedRequired(payload) : Solutions(WithRequired(payload, r)) = {}

(* C15, amended: the same, for inputs in which overnightRequired is 0 and  *)
(* no shift type defines a minShifts above 0.                              *)
C15_MonotoneInRequiredWithoutMinimums ==
    (ModelBuilt /\ NoTypeMinimum(payload) /\ OvernightRequired(payload) = 0
        /\ Solutions(payload) = {}) =>
        \A r \in RaisedRequired(payload) : Solutions(WithRequired(payload, r)) = {}

\* the input asks for one shift more than the largest quota that can be
\* met, and its model has no assignment
C15_Witness ==
    /\ ModelBuilt /\ NoTypeMinimum(payload) /\ OvernightRequired(payload) = 0
    /\ payload.rules.numShiftsRequired \in 1..MaxRequired
    /\ Solutions(payload) = {}
    /\ Solutions(WithRequired(payload, payload.rules.numShiftsRequired - 1)) # {}

\* the inputs that differ from p in one bound of one shift type: a defined
\* minShifts raised by one, or a defined positive maxShifts lowered by one
TightenedBounds(p) ==
    {[p EXCEPT ![ "shiftTypes"][n].minShifts = {lo + 1}] :
        <<n, lo>> \in {pr \in (DOMAIN p.shiftTypes) \X (0..(MaxOvernightMin + MaxTypeBound)) :
                          pr[2] \in p.shiftTypes[pr[1]].minShifts}}
    \cup
    {[p EXCEPT ![ "shiftTypes"][n].maxShifts = {hi - 1}] :
        <<n, hi>> \in {pr \in (DOMAIN p.shiftTypes) \X (1..(MaxOvernightMin + MaxTypeBound)) :
                          pr[2] \in p.shiftTypes[pr[1]].maxShifts}}

\* the run on p with students and shifts ends INFEASIBLE when the solver
\* decides: no block to choose from, or no assignment that meets the model
Infeasible(p) ==
    \/ NeedsBlock(p) /\ ValidWindows(p) = {}
    \/ Solutions(p) = {}

\* main() is past the block analysis of a non-empty input
InputAnalysed ==
    \/ ModelBuilt
    \/ pc = "exit" /\ ReturnedAfterImport /\ ~EmptyInput(payload) /\ solverStatus = "NONE"

(* C16: for two inputs that differ only in that the second raises minShifts *)
(* or lowers maxShifts of one shift type (the Overnight type included), if  *)
(* the first is INFEASIBLE, by the early diagnostic or because its model    *)
(* has no satisfying assignment, then the second is INFEASIBLE.             *)
C16_MonotoneInTypeBounds ==
    (InputAnalysed /\ Infeasible(payload)) =>
        \A q \in TightenedBounds(payload) : Infeasible(q)

\* the input p with timeOffHours replaced by t
WithTimeOff(p, t) == [p EXCEPT !.rules.timeOffHours = t]

\* the larger values of timeOffHours that are compared with the input's
RaisedTimeOff(p) ==
    {p.rules.timeOffHours + 1} \cup {t \in TimeOffChoices : t > p.rules.timeOffHours}

(* C17: for two inputs that differ only in that the second has a larger    *)
(* timeOffHours, every assignment admitted by the model of the second is   *)
(* admitted by the model of the first; so if the first is INFEASIBLE the   *)
(* second is too.                                                          *)
C17_MonotoneInTimeOff ==
    ModelBuilt =>
        \A t \in RaisedTimeOff(payload) :
            /\ Solutions(WithTimeOff(payload, t)) \subseteq Solutions(payload)
            /\ Solutions(payload) = {} => Solutions(WithTimeOff(payload, t)) = {}

\* a longer rest time removes some, but not all, of the input's assignments
C17_Witness ==
    /\ ModelBuilt
    /\ \E t \in RaisedTimeOff(payload) :
           /\ Solutions(WithTimeOff(payload, t)) # {}
           /\ Solutions(WithTimeOff(payload, t)) # Solutions(payload)

----------------------------------------------------------------------------
(* Missing keys and exit codes *)

\* the input lacks one of the required keys: project, shiftInstances,
\* students, shiftTemplates, rules, numShiftsRequired, or a shift instance's
\* id, templateId, startDateTime or endDateTime
LacksRequiredKey(p) ==
    \/ p.missing # {}
    \/ \E i \in Shifts(p) : p.shifts[i].absent # {}

\* main() has ended: it returned, or an exception ended the process
Ended == pc \in {"exit", "crash"}

(* C18: whenever the input lacks a required key, the run ends as a         *)
(* process failure with a non-zero exit status and no output document is   *)
(* written, whether or not students or shifts are empty and whether or not *)
(* the solver library can be imported.                                     *)
C18_MissingKeyFailsProcess ==
    LacksRequiredKey(payload) =>
        /\ writes = 0
        /\ Ended => (pc = "crash" /\ exitCode = {UncaughtExit})

(* C19: main returns 2 exactly when it is not given two positional         *)
(* arguments, and then it has read no input and written no output; every   *)
(* run that reaches one of the four output points (import error, empty     *)
(* input, no valid block, solver result) writes the output document        *)
(* exactly once and returns 0.                                             *)
C19_ExitCodes ==
    /\ (exitCode = {UsageExit}) <=> (pc = "exit" /\ argc # ExpectedArgc)
    /\ argc # ExpectedArgc =>
          /\ payload = NoPayload /\ writes = 0 /\ out = NoOutput
          /\ pc \in {"start", "exit"}
    /\ writes \in {0, 1}
    /\ Written <=> (pc = "exit" /\ argc = ExpectedArgc)
    /\ Written => exitCode = {0}

\* main was started with three positional arguments and returned 2
C19_Witness ==
    /\ pc = "exit"
    /\ argc = ExpectedArgc + 1
    /\ exitCode = {UsageExit}
    /\ writes = 0

----------------------------------------------------------------------------
(* The isOvernight hint of a shift instance *)

\* the template of shift i names a shift type of the input whose trimmed,
\* lowercased name is 'overnight'
OvernightByTypeName(p, i) ==
    \E m \in DOMAIN p.shiftTemplates : \E n \in DOMAIN p.shiftTypes :
        /\ p.shiftTemplates[m].id = p.shifts[i].templateId
        /\ p.shiftTemplates[m].shiftTypeId = {p.shiftTypes[n].id}
        /\ NameKey(p.shiftTypes[n].name) = "overnight"

\* main() ends a non-empty input p before the solve, for want of a block
EarlyExit(p) == NeedsBlock(p) /\ ValidWindows(p) = {}

(* C20: the isOvernight hint of a shift has no influence: an input and any *)
(* input that differs from it only in isOvernight flags have the same      *)
(* overnight shifts, the same candidate blocks, the same admissible        *)
(* assignments and the same early-exit outcome; a shift is overnight       *)
(* exactly when its template's shiftTypeId is the id of a shift type whose *)
(* trimmed, lowercased name is 'overnight'.                                *)
C20_HintHasNoInfluence ==
    InputAnalysed =>
        /\ \A i \in Shifts(payload) :
               IsOvernightShift(payload, i) <=> OvernightByTypeName(payload, i)
        /\ \A flags \in [Shifts(payload) -> BOOLEAN] :
               LET q == WithHints(payload, flags)
               IN  /\ OvernightShiftIndices(q) = OvernightShiftIndices(payload)
                   /\ OvernightBeforeConferenceIndices(q) = OvernightBeforeConferenceIndices(payload)
                   /\ ValidWindows(q) = ValidWindows(payload)
                   /\ EarlyExit(q) <=> EarlyExit(payload)
                   /\ Solutions(q) = Solutions(payload)

\* every shift carries the hint, none is of an overnight type, and a
\* schedule without any overnight constraint is admitted
C20_Witness ==
    /\ ModelBuilt
    /\ Len(payload.shifts) > 1
    /\ \A i \in Shifts(payload) : payload.shifts[i].isOvernight
    /\ OvernightShiftIndices(payload) = {}
    /\ \E i \in Shifts(payload) : payload.shifts[i].templateId = "T_night"
    /\ Solutions(payload) # {}

----------------------------------------------------------------------------
(* The assignment list *)

\* (s, i) comes before (t, j): student index first, shift index second
PairBefore(a, b) == a[1] < b[1] \/ (a[1] = b[1] /\ a[2] < b[2])

\* the position in the assignment list of the pair pr of value 1
PositionOf(pr) == Cardinality({q \in x : PairBefore(q, pr)}) + 1

(* C21: on OPTIMAL or FEASIBLE the assignment list holds exactly the       *)
(* (student, shift) pairs whose decision variable has value 1, each once,  *)
(* with the studentId and shiftInstanceId of the input, ordered by student *)
(* input index first and shift input index second.                         *)
C21_AssignmentListIsOrderedValues ==
    Success =>
        /\ Len(out.assignments) = Cardinality(x)
        /\ x \subseteq Pairs(payload)
        /\ \A pr \in x :
               out.assignments[PositionOf(pr)] =
                   [studentId |-> payload.students[pr[1]].id,
                    shiftInstanceId |-> payload.shifts[pr[2]].id]

\* the second student holds a shift that comes earlier in the input than
\* a shift of the first student
C21_Witness ==
    /\ Success
    /\ \E i, j \in Shifts(payload) : j < i /\ <<1, i>> \in x /\ <<2, j>> \in x

----------------------------------------------------------------------------
(* Two runs on the same input *)

\* OPTIMAL and FEASIBLE count as one status
StatusClass(status) == IF status \in {"OPTIMAL", "FEASIBLE"} THEN "FEASIBLE" ELSE status

\* the documents that runs of main() on the input p can write once the
\* model of p is built, one for each outcome of the solver
ResultDocuments(p) == {OutputFor(p, o.status, o.values) : o \in SolverOutcomes(p)}

(* C22: two runs of main on identical input produce the identical status   *)
(* (both among OPTIMAL/FEASIBLE, or both INFEASIBLE, or both ERROR), also  *)
(* when the solver stops at its wall-clock time limit.                     *)
C22_SameStatusForSameInput ==
    ModelBuilt =>
        \A d1, d2 \in ResultDocuments(payload) :
            StatusClass(d1.status) = StatusClass(d2.status)

----------------------------------------------------------------------------
(* Shifts that do not end after they start *)

(* C23: an input that contains a shift instance with startDateTime >=      *)
(* endDateTime never yields OPTIMAL or FEASIBLE with that shift assigned   *)
(* to a student.                                                           *)
C23_DegenerateShiftNeverAssigned ==
    Success =>
        \A s \in Students(payload) : \A i \in AssignedShifts(s) :
            StartOf(payload, i) < EndOf(payload, i)

----------------------------------------------------------------------------
(* Shifts without a resolvable shift type *)

\* the shifts of the input that have no resolvable shift type
UntypedShifts(p) == {i \in Shifts(p) : Untyped(p, i)}

\* shift i lies in the conference window as main() computes it
Blocked(p, i) == ConferenceOverlap(StartOf(p, i), EndOf(p, i), Rules(p), LocalTz(p))

(* C24: a shift instance whose templateId resolves to no template, whose   *)
(* template has no shiftTypeId, or whose shiftTypeId resolves to no shift  *)
(* type never causes an error; it has decision variables, counts toward    *)
(* the per-student total, is subject to the double-booking, conference and *)
(* rest rules, is never classified as overnight, and contributes to no     *)
(* per-type min/max constraint.                                            *)
C24_UntypedShiftIsOrdinary ==
    /\ ReturnedAfterImport =>
          (writes = 1 /\ out.status \in {"OPTIMAL", "FEASIBLE", "INFEASIBLE"})
    /\ InputAnalysed =>
          /\ UntypedShifts(payload) \cap OvernightShiftIndices(payload) = {}
          /\ \A h \in SUBSET Shifts(payload) :
                 TypeBoundsConstraint(payload, h)
                     <=> TypeBoundsConstraint(payload, h \ UntypedShifts(payload))
    /\ Success =>
          \A s \in Students(payload) :
              /\ Cardinality(AssignedShifts(s)) = EffectiveTarget
              /\ \A i \in AssignedShifts(s) \cap UntypedShifts(payload) :
                     /\ <<s, i>> \in x
                     /\ ~Blocked(payload, i)
                     /\ \A t \in Students(payload) \ {s} : i \notin AssignedShifts(t)
                     /\ \A j \in AssignedShifts(s) \ {i} :
                            /\ ~Overlap(StartOf(payload, i), EndOf(payload, i),
                                        StartOf(payload, j), EndOf(payload, j))
                            /\ Gap(i, j) >= payload.rules.timeOffHours * SecondsPerHour

\* a student holds a Trauma shift at the Trauma maximum of 1 together with
\* a shift without a shift type, while another such shift of the input lies
\* in the conference window
C24_Witness ==
    /\ Success
    /\ \E n \in DOMAIN payload.shiftTypes :
           payload.shiftTypes[n].id = "tr" /\ payload.shiftTypes[n].maxShifts = {1}
    /\ \E i \in UntypedShifts(payload) : Blocked(payload, i)
    /\ \E s \in Students(payload) :
           /\ AssignedShifts(s) \cap UntypedShifts(payload) # {}
           /\ \E j \in AssignedShifts(s) : TypeIdOfShift(payload, j) = {"tr"}

----------------------------------------------------------------------------
(* Catalogues in which no two shifts can be held together *)

\* every two shifts of the input overlap or lie less than timeOffHours apart
AllPairsConflict ==
    \A i \in Shifts(payload) : \A j \in Shifts(payload) :
        i # j =>
            \/ Overlap(StartOf(payload, i), EndOf(payload, i),
                       StartOf(payload, j), EndOf(payload, j))
            \/ Gap(i, j) < payload.rules.timeOffHours * SecondsPerHour

\* the run is that of an input with students and shifts, effectiveTarget of
\* at least 2 and no two shifts that one student can hold
CrowdedRun ==
    /\ ReturnedAfterImport /\ ~EmptyInput(payload)
    /\ EffectiveTarget >= 2
    /\ AllPairsConflict

(* C25: with effectiveTarget >= 2 and a shift catalogue in which every     *)
(* pair of shifts overlaps or has a gap smaller than timeOffHours, no      *)
(* student can hold two shifts and the run ends with status INFEASIBLE and *)
(* the generic infeasibility diagnostic.                                   *)
C25_CrowdedCatalogueIsGenericInfeasible ==
    CrowdedRun => GenericInfeasible(out)

(* C25, amended: the same; the diagnostic is the generic one unless        *)
(* overnightRequired > 1 and the input has no valid overnight block, in    *)
(* which case the run ends INFEASIBLE with the 'No feasible overnight      *)
(* block exists in the current window.' diagnostic.                        *)
C25_CrowdedCatalogueIsInfeasible ==
    CrowdedRun =>
        /\ out.status = "INFEASIBLE"
        /\ IF EarlyExit(payload) THEN out = NoBlockOutput(payload) ELSE GenericInfeasible(out)

\* scenario S6: two students, two shifts that one student cannot both hold,
\* two shifts required, no overnight quota; the solver proved infeasibility
C25_Witness ==
    /\ CrowdedRun
    /\ Len(payload.students) = 2 /\ Len(payload.shifts) = 2
    /\ payload.rules.numShiftsRequired = 2
    /\ OvernightRequired(payload) = 0
    /\ solverStatus = "INFEASIBLE"
    /\ GenericInfeasible(out)

----------------------------------------------------------------------------
(* Inputs without an overnight quota *)

\* the model of the input with one shift required admits the row that
\* holds shift i alone, for any student
Assignable(i) == StudentConstraints(WithRequired(payload, 1), {i})

\* the overnight shifts that start, in local time, on the weekday before
\* the conference day
OvernightsOnDayBeforeConference ==
    {i \in OvernightShiftIndices(payload) :
        SwiftWeekday(DateOf(Local(StartOf(payload, i))))
            = (IF payload.rules.conferenceDay = 1 THEN 7 ELSE payload.rules.conferenceDay - 1)}

\* the model is built for an input whose overnightRequired is 0
BuiltWithoutQuota == ModelBuilt /\ OvernightRequired(payload) = 0

(* C26: when overnightRequired = 0 the overnight-count and the block       *)
(* steps add no constraint and the pre-conference overnight ban forbids no *)
(* shift; every shift that is not conference-blocked remains assignable to *)
(* every student.                                                          *)
C26_NoOvernightRuleWithoutQuota ==
    BuiltWithoutQuota =>
        /\ \A h \in SUBSET Shifts(payload) :
               /\ OvernightCountConstraint(payload, h)
               /\ BlockConstraint(payload, h)
               /\ PreConferenceConstraint(payload, h)
        /\ \A i \in Shifts(payload) : ~Blocked(payload, i) => Assignable(i)

(* C26, amended: when overnightRequired = 0 the overnight-count and the    *)
(* block steps add no constraint; the pre-conference ban still forbids the *)
(* shifts of an overnight type that start on the day before the           *)
(* conference (there are none when no shift type is named 'overnight');    *)
(* every shift that is neither conference-blocked nor so banned remains    *)
(* assignable to every student.                                            *)
C26_OnlyBanWithoutQuota ==
    BuiltWithoutQuota =>
        /\ \A h \in SUBSET Shifts(payload) :
               /\ OvernightCountConstraint(payload, h)
               /\ BlockConstraint(payload, h)
               /\ PreConferenceConstraint(payload, h)
                      <=> (h \cap OvernightsOnDayBeforeConference = {})
        /\ OvernightTypeIds(payload) = {} => OvernightsOnDayBeforeConference = {}
        /\ \A i \in Shifts(payload) :
               Assignable(i) <=> (~Blocked(payload, i) /\ i \notin OvernightsOnDayBeforeConference)

\* no overnight quota, yet an overnight shift is banned because it starts
\* on the day before the conference, while another overnight shift stays
\* assignable
C26_Witness ==
    /\ BuiltWithoutQuota
    /\ \E i \in OvernightsOnDayBeforeConference : ~Blocked(payload, i) /\ ~Assignable(i)
    /\ \E j \in OvernightShiftIndices(payload) : Assignable(j)

----------------------------------------------------------------------------
(* The order of project.shiftTypes *)

\* the inputs that list the shift types of p in another order
Reordered(p) ==
    LET n == Len(p.shiftTypes)
        perms == {f \in [1..n -> 1..n] : \A i, j \in 1..n : f[i] = f[j] => i = j}
    IN  {[p EXCEPT !.shiftTypes = [i \in 1..n |-> p.shiftTypes[f[i]]]] : f \in perms}

(* C27: overnightRequired, and with it effectiveTarget and the outcome of  *)
(* the run, do not depend on the order of project.shiftTypes: permuting    *)
(* the shift types, also when several of them are named 'Overnight' with   *)
(* different minShifts, leaves the set of admissible assignments           *)
(* unchanged.                                                              *)
C27_ShiftTypeOrderIsIrrelevant ==
    InputAnalysed =>
        \A q \in Reordered(payload) :
            /\ OvernightRequired(q) = OvernightRequired(payload)
            /\ Target(q) = Target(payload)
            /\ EarlyExit(q) <=> EarlyExit(payload)
            /\ Solutions(q) = Solutions(payload)


----------------------------------------------------------------------------
(* Overnight blocks whose members cannot be held together *)

\* the model of an input with a block quota has been built: the input has
\* students, shifts and at least one candidate block
BlockModelBuilt ==
    /\ argc = ExpectedArgc
    /\ pc \in {"solve", "emit"} \/ (pc = "exit" /\ solverStatus # "NONE")
    /\ OvernightRequired(payload) > 1

\* in every candidate block some two consecutive members overlap, or the
\* next starts less than timeOffHours after the previous ends
EveryBlockBreaksRest(p) ==
    \A start \in ValidWindows(p) :
        LET window == Window(p, start)
        IN  \E n \in 2..Len(window) :
                \/ Overlap(StartOf(p, window[n - 1]), EndOf(p, window[n - 1]),
                           StartOf(p, window[n]), EndOf(p, window[n]))
                \/ StartOf(p, window[n]) - EndOf(p, window[n - 1])
                       < p.rules.timeOffHours * SecondsPerHour

(* C28: the members of an overnight block are subject to the pairwise rest *)
(* and overlap rule: when overnightRequired > 1 and every candidate block  *)
(* has two consecutive members that overlap or lie less than timeOffHours  *)
(* apart, the model admits no assignment, the solver never reports a       *)
(* solution, and the run ends INFEASIBLE with the generic diagnostic, not  *)
(* with the diagnostic of the missing overnight run.                       *)
C28_BlockMembersNeedRest ==
    (BlockModelBuilt /\ EveryBlockBreaksRest(payload)) =>
        /\ Solutions(payload) = {}
        /\ solverStatus \notin {"OPTIMAL", "FEASIBLE"}
        /\ Written =>
               /\ GenericInfeasible(out)
               /\ out # NoBlockOutput(payload)

\* two overnight shifts on consecutive days, 16 hours apart, form the only
\* block of a student who needs 20 hours of rest, and the rest rule alone
\* stands in the way of the block; the solver proved infeasibility and the
\* generic document was written
C28_Witness ==
    /\ BlockModelBuilt /\ EveryBlockBreaksRest(payload)
    /\ Cardinality(ValidWindows(payload)) = 1
    /\ \A i \in OvernightShiftIndices(payload) : \A j \in OvernightShiftIndices(payload) :
           i # j => ~Overlap(StartOf(payload, i), EndOf(payload, i),
                             StartOf(payload, j), EndOf(payload, j))
    /\ payload.rules.timeOffHours = 20
    /\ \E h \in SUBSET Shifts(payload) : StudentConstraintsRestOutsideBlock(payload, h)
    /\ solverStatus = "INFEASIBLE"
    /\ Written /\ GenericInfeasible(out)


----------------------------------------------------------------------------
(* Shift capacity *)

\* the shift instances that are neither conference-blocked nor banned as
\* overnight shifts of the day before the conference
Available(p) ==
    Shifts(p) \ (ConferenceBlockedShiftIndices(p) \cup OvernightBeforeConferenceIndices(p))

\* 'Required total assignments' of the diagnostic: numStudents * target
RequiredAssignments(p) == Len(p.students) * Target(p)

\* more assignments are required than there are available shift instances
OverCapacity(p) == RequiredAssignments(p) > Cardinality(Available(p))

(* C29: capacity bound: with noDoubleBooking on (or left out) and          *)
(* numStudents * effectiveTarget above the number of shift instances that  *)
(* are neither conference-blocked nor pre-conference-banned, and so also   *)
(* when it is above numShifts, the 'Shift capacity' of the diagnostic, the *)
(* model admits no assignment and the run never ends OPTIMAL or FEASIBLE.  *)
(* That the same input can be feasible with noDoubleBooking off is the     *)
(* state C29_Witness.                                                      *)
C29_CapacityBound ==
    (argc = ExpectedArgc /\ NoDoubleBooking(Rules(payload))
        /\ (OverCapacity(payload) \/ RequiredAssignments(payload) > Len(payload.shifts))) =>
        /\ Solutions(payload) = {}
        /\ solverStatus \notin {"OPTIMAL", "FEASIBLE"}
        /\ Written => out.status \notin {"OPTIMAL", "FEASIBLE"}

\* two students share shifts with noDoubleBooking off: more assignments are
\* required than shifts are available, one shift is out of reach because of
\* the conference, and the same input with noDoubleBooking on has finished
\* INFEASIBLE
C29_Witness ==
    /\ Success
    /\ ~NoDoubleBooking(Rules(payload))
    /\ OverCapacity(payload)
    /\ RequiredAssignments(payload) <= Len(payload.shifts)
    /\ Solutions([payload EXCEPT !.rules.noDoubleBooking = {TRUE}]) = {}

=============================================================================
